---- MODULE Spec2Model ----
(***************************************************************************)
(* ThingSpeak client for MicroPython (src/src/lib/thingspeak.py) and the   *)
(* caller loop of src/src/main.py.                                         *)
(*                                                                         *)
(* Time is kept in milliseconds: time() (seconds) is the clock divided by  *)
(* 1000, and every quantity the code holds in seconds (the DNS interval,   *)
(* the API time limit, free_api_delay) is held here multiplied by 1000, so *)
(* that 10.512 s is the integer 10512.                                     *)
(*                                                                         *)
(* Bytes are sequences of one-character strings; a Python int is its       *)
(* canonical decimal numeral (a sequence of characters), since Python ints *)
(* are unbounded.                                                          *)
(***************************************************************************)
EXTENDS Integers, Sequences, FiniteSets, TLC

VARIABLES
    channels,        \* the list of Channel objects given to ThingSpeakAPI.__init__
    _channels,       \* ThingSpeakAPI._channels: channel name -> Channel
    _api_time_limit_sec,  \* ThingSpeakAPI._api_time_limit_sec, ms
    protocol,        \* protocol_class: "HTTP" or "HTTPS"
    clock,           \* the wall clock, ms
    free_api_delay,  \* ThingSpeakAPI._free_api_delay, ms
    next_dns_lookup_timestamp,  \* _ProtoWeb._next_dns_lookup_timestamp, ms
    address_info,    \* _ProtoWeb._address_info: None (set is FALSE), or the list
                     \* getaddrinfo returned
    open_sockets,    \* sockets created and not closed
    sends,           \* number of send calls made
    last,            \* what the last send call did (observation of the call)
    lookup_at,       \* the clock when getaddrinfo last returned (observation), or -1
    slept,           \* the caller has slept free_api_delay since the last send
    arg,             \* the argument of _parse_reply or _make_http_data
    out              \* what it returned or raised

vars == <<channels, _channels, _api_time_limit_sec, protocol, clock, free_api_delay, next_dns_lookup_timestamp,
          address_info, open_sockets, sends, last, lookup_at, slept, arg, out>>

----------------------------------------------------------------------------
(* Bounds of the model *)

MaxSends == 2
MaxTimedSends == 3
MaxReplyChunks == 5
MaxValues == 2
MaxClock == 3700000

----------------------------------------------------------------------------
(* Python built-ins on bytes *)

None == "None"

Max(a, b) == IF a >= b THEN a ELSE b

Digits == <<"0", "1", "2", "3", "4", "5", "6", "7", "8", "9">>

IsDigit(c) == \E i \in DOMAIN Digits : Digits[i] = c

IsSpace(c) == c \in {" ", "\r", "\n", "\t"}

\* sep occurs in s starting at position i
MatchAt(s, sep, i) ==
    /\ i >= 1
    /\ i + Len(sep) - 1 <= Len(s)
    /\ \A k \in 1..Len(sep) : s[i + k - 1] = sep[k]

Occurrences(s, sep) == {i \in 1..Len(s) : MatchAt(s, sep, i)}

\* s.split(sep, 1)[0]
SplitFirstHead(s, sep) ==
    LET occ == Occurrences(s, sep) IN
    IF occ = {} THEN s
    ELSE LET i == CHOOSE j \in occ : \A k \in occ : j <= k IN SubSeq(s, 1, i - 1)

\* s.rsplit(sep, 1)[-1]
RSplitLastTail(s, sep) ==
    LET occ == Occurrences(s, sep) IN
    IF occ = {} THEN s
    ELSE LET i == CHOOSE j \in occ : \A k \in occ : j >= k
         IN SubSeq(s, i + Len(sep), Len(s))

\* s.split(c) for a one-byte separator c: the list of pieces
RECURSIVE SplitAll(_, _)
SplitAll(s, c) ==
    LET occ == {i \in 1..Len(s) : s[i] = c} IN
    IF occ = {} THEN <<s>>
    ELSE LET i == CHOOSE j \in occ : \A k \in occ : j <= k
         IN <<SubSeq(s, 1, i - 1)>> \o SplitAll(SubSeq(s, i + 1, Len(s)), c)

RECURSIVE LStrip(_)
LStrip(s) == IF s # <<>> /\ IsSpace(Head(s)) THEN LStrip(Tail(s)) ELSE s

RECURSIVE RStrip(_)
RStrip(s) ==
    IF s # <<>> /\ IsSpace(s[Len(s)]) THEN RStrip(SubSeq(s, 1, Len(s) - 1)) ELSE s

RECURSIVE DropZeros(_)
DropZeros(s) == IF s # <<>> /\ Head(s) = "0" THEN DropZeros(Tail(s)) ELSE s

\* int(s) for bytes s: surrounding whitespace is stripped, then an optional sign and
\* one or more decimal digits; anything else raises ValueError.
PyInt(s) ==
    LET t == RStrip(LStrip(s))
        signed == t # <<>> /\ Head(t) \in {"-", "+"}
        body == IF signed THEN Tail(t) ELSE t
        valid == body # <<>> /\ \A i \in 1..Len(body) : IsDigit(body[i])
        mag == DropZeros(body)
    IN IF ~valid THEN [raised |-> "ValueError", value |-> <<>>]
       ELSE [raised |-> None,
             value |-> IF mag = <<>> THEN <<"0">>
                       ELSE IF signed /\ Head(t) = "-" THEN <<"-">> \o mag
                       ELSE mag]

Int200 == <<"2", "0", "0">>
Int0 == <<"0">>
IntMinus1 == <<"-", "1">>

CRLF == <<"\r", "\n">>

----------------------------------------------------------------------------
(* _ProtocolBase / _ProtoWeb constants *)

MESSAGE_COUNT_ON_ERROR_FROM_API == IntMinus1

_API_DNS_LOOKUP_INTERVAL_SEC == 3600000

_API_HOST == "api.thingspeak.com"

----------------------------------------------------------------------------
(* _ProtoWeb._parse_reply *)

\* int(reply.split(b'\r\n', 1)[0].split(b' ')[1])
ParseStatus(reply) ==
    LET tokens == SplitAll(SplitFirstHead(reply, CRLF), " ") IN
    IF Len(tokens) < 2 THEN [raised |-> "IndexError", value |-> <<>>]
    ELSE PyInt(tokens[2])

\* int(reply.rsplit(b'\r\n\r\n', 1)[-1])
ParseBody(reply) == PyInt(RSplitLastTail(reply, CRLF \o CRLF))

\* messages_count starting at 0 instead of the error count
_parse_reply_CountFromZero(reply) ==
    LET status == ParseStatus(reply) IN
    IF status.raised # None THEN Int0
    ELSE IF status.value = Int200
         THEN LET count == ParseBody(reply) IN
              IF count.raised = "ValueError" THEN Int0 ELSE count.value
         ELSE Int0

_parse_reply(reply) ==
    LET status == ParseStatus(reply) IN
    IF status.raised = "IndexError" THEN MESSAGE_COUNT_ON_ERROR_FROM_API
    ELSE IF status.raised = "ValueError" THEN Int0
    ELSE IF status.value = Int200
         THEN LET count == ParseBody(reply) IN
              IF count.raised = "ValueError" THEN Int0 ELSE count.value
         ELSE MESSAGE_COUNT_ON_ERROR_FROM_API

----------------------------------------------------------------------------
(* Channel *)

\* str(n) of a Python int
Str(n) == ToString(n)

\* the slots numbered from 0
RECURSIVE FieldsDict_FromZero(_, _)
FieldsDict_FromZero(fields, n) ==
    IF n = 0 THEN <<>>
    ELSE LET d == FieldsDict_FromZero(fields, n - 1)
             index == n - 1
         IN [k \in DOMAIN d \cup {fields[n]} |->
                IF k = fields[n] THEN "field" \o Str(index) ELSE d[k]]

\* {field: 'field' + str(index + 1) for index, field in enumerate(fields)}, over the
\* first n fields: a later entry of the same name replaces the earlier one
RECURSIVE FieldsDict(_, _)
FieldsDict(fields, n) ==
    IF n = 0 THEN <<>>
    ELSE LET d == FieldsDict(fields, n - 1)
             index == n - 1
         IN [k \in DOMAIN d \cup {fields[n]} |->
                IF k = fields[n] THEN "field" \o Str(index + 1) ELSE d[k]]

Channel(name, write_key, fields) ==
    [name |-> name, write_key |-> write_key, fields |-> FieldsDict(fields, Len(fields))]

get_field_id(channel, field_name) == channel.fields[field_name]

----------------------------------------------------------------------------
(* _ProtoWeb._make_http_data *)

\* '{}'.format(value): an int prints as its decimal numeral, a str as itself, and a
\* float as its repr, which the value carries
Format(value) == IF value.type = "int" THEN Str(value.v) ELSE value.v

\* '&'.join(items)
RECURSIVE Join(_)
Join(items) ==
    IF Len(items) = 0 THEN ""
    ELSE IF Len(items) = 1 THEN items[1]
    ELSE items[1] \o "&" \o Join(Tail(items))

_HTTP_POST_TEMPLATE(write_api_key, data, host) ==
    "GET /update?api_key=" \o write_api_key \o "&" \o data \o " HTTP/1.1\r\n"
    \o "Host: " \o host \o "\r\n"
    \o "Connection: close\r\n\r\n"

\* the loop over data.items(): the items built so far, or the error raised at the
\* first field the channel does not have.  data is the mapping as the sequence of its
\* (name, value) entries in iteration order.
RECURSIVE DataItems(_, _, _)
DataItems(channel, data, acc) ==
    IF data = <<>> THEN [raised |-> None, value |-> acc]
    ELSE LET field_name == Head(data)[1]
             field_value == Head(data)[2]
         IN IF field_name \notin DOMAIN channel.fields
            THEN [raised |-> "ThingSpeakError", value |-> <<>>]
            ELSE DataItems(channel, Tail(data),
                     Append(acc, get_field_id(channel, field_name) \o "="
                                 \o Format(field_value)))

_make_http_data(channel, data) ==
    IF Len(data) = 0 THEN [raised |-> "ThingSpeakError", value |-> ""]
    ELSE LET data_items == DataItems(channel, data, <<>>) IN
         IF data_items.raised # None THEN [raised |-> "ThingSpeakError", value |-> ""]
         ELSE LET text_data == IF Len(data_items.value) > 1
                               THEN Join(data_items.value)
                               ELSE data_items.value[1]
              IN [raised |-> None,
                  value |-> _HTTP_POST_TEMPLATE(channel.write_key, text_data, _API_HOST)]

----------------------------------------------------------------------------
(* The network, as one send call meets it *)

Address == "184.106.153.149"

\* the bytes of a reply written as its pieces
RECURSIVE Bytes(_)
Bytes(chunks) == IF chunks = <<>> THEN <<>> ELSE Head(chunks) \o Bytes(Tail(chunks))

Http == <<"H">>
Sp == <<" ">>

ReplyOk == Bytes(<<Http, Sp, Int200, Sp, <<"O", "K">>, CRLF, CRLF, <<"4", "2">>>>)
ReplyOkNoCount == Bytes(<<Http, Sp, Int200, Sp, <<"O", "K">>, CRLF, CRLF, <<"o", "k">>>>)
ReplyOkMinus1 == Bytes(<<Http, Sp, Int200, CRLF, CRLF, IntMinus1>>)
ReplyBadRequest == Bytes(<<Http, Sp, <<"4", "0", "0">>, Sp, <<"B">>, CRLF, CRLF>>)
ReplyNoStatusCode == Bytes(<<Http, Sp, <<"B">>, CRLF, CRLF, <<"4", "2">>>>)
ReplyServerError == Bytes(<<Http, Sp, <<"5", "0", "0">>, CRLF, CRLF, <<"4", "2">>>>)
ReplyEmpty == <<>>

MainReplies ==
    {ReplyOk, ReplyOkNoCount, ReplyOkMinus1, ReplyBadRequest, ReplyServerError,
     ReplyNoStatusCode, ReplyEmpty}

\* what each network call of one send does: getaddrinfo returns a list ("ok"), an
\* empty list ("empty") or raises ("fail"); connect, wrap_socket, send/write and
\* recv/read succeed or raise; reply is what the peer sends before closing
NetOk(reply) ==
    [dns |-> "ok", connect |-> "ok", wrap |-> "ok", write |-> "ok", read |-> "ok",
     reply |-> reply]

Networks ==
    {NetOk(r) : r \in MainReplies}
    \cup {[NetOk(ReplyOk) EXCEPT !.dns = "fail"], [NetOk(ReplyOk) EXCEPT !.dns = "empty"],
          [NetOk(ReplyOk) EXCEPT !.connect = "fail"], [NetOk(ReplyOk) EXCEPT !.wrap = "fail"],
          [NetOk(ReplyOk) EXCEPT !.write = "fail"], [NetOk(ReplyOk) EXCEPT !.read = "fail"]}

\* how long one send call takes, ms
Durations == {250, 21024}

\* what the caller does between two sends besides time.sleep(free_api_delay), ms
Waits == {3599749, 3599750}

\* time() when the client is constructed, ms
StartClocks == {1000}

----------------------------------------------------------------------------
(* The configurations the client is built with, and the arguments of send *)

Lab == Channel("Lab", "K1", <<"Temp", "Humidity">>)
Bed == Channel("Bed", "K2", <<"Temp">>)
LabAgain == Channel("Lab", "K3", <<"Humidity">>)

ChannelLists == {<<Lab>>, <<Lab, Bed>>, <<Lab, LabAgain>>}

Temp == <<"Temp", [type |-> "float", v |-> "21.5"]>>
Humidity == <<"Humidity", [type |-> "int", v |-> 40]>>
Pressure == <<"Pressure", [type |-> "int", v |-> 1013]>>

----------------------------------------------------------------------------
(* Clocks: time() is the clock; ticks_ms() is time() * 1000, and the model holds both
   in ms *)

time(c) == c

ticks_ms(c) == time(c)

\* the operands taken in the wrong order
ticks_diff_Swapped(end_time, start_time) == start_time - end_time

ticks_diff(end_time, start_time) == end_time - start_time

----------------------------------------------------------------------------
(* _ProtoWeb: _resolve_ip, _send_to_socket, send *)

\* < in place of <=: no lookup at the very second the cache expires
_resolve_ip_Late(info, next, net, now) ==
    IF next < now
    THEN IF net.dns = "fail"
         THEN [raised |-> "OSError", address_info |-> info, next |-> next, lookups |-> 1]
         ELSE [raised |-> None,
               address_info |-> [set |-> TRUE,
                                 list |-> IF net.dns = "ok" THEN <<Address>> ELSE <<>>],
               next |-> now + _API_DNS_LOOKUP_INTERVAL_SEC,
               lookups |-> 1]
    ELSE [raised |-> None, address_info |-> info, next |-> next, lookups |-> 0]

\* The cache after the call, whether getaddrinfo was called, and what was raised.
\* getaddrinfo raising leaves both fields as they were.
_resolve_ip(info, next, net, now) ==
    IF next <= now
    THEN IF net.dns = "fail"
         THEN [raised |-> "OSError", address_info |-> info, next |-> next, lookups |-> 1]
         ELSE [raised |-> None,
               address_info |-> [set |-> TRUE,
                                 list |-> IF net.dns = "ok" THEN <<Address>> ELSE <<>>],
               next |-> now + _API_DNS_LOOKUP_INTERVAL_SEC,
               lookups |-> 1]
    ELSE [raised |-> None, address_info |-> info, next |-> next, lookups |-> 0]

\* a failed write answered by writing once more, and the error swallowed
_send_to_socket_Retry(proto, net, http_data) ==
    IF proto = "HTTPS" /\ net.wrap = "fail"
    THEN [raised |-> "OSError", failed |-> "wrap", reply |-> <<>>, writes |-> 0]
    ELSE IF net.write = "fail"
    THEN [raised |-> None, failed |-> "write", reply |-> net.reply, writes |-> 2]
    ELSE IF net.read = "fail"
    THEN [raised |-> "OSError", failed |-> "read", reply |-> <<>>, writes |-> 1]
    ELSE [raised |-> None, failed |-> None, reply |-> net.reply, writes |-> 1]

\* ProtoHTTPS: wrap_socket, write, read.  ProtoHTTP: send, then recv until the peer
\* closes.  writes counts the calls that wrote the request, failed names the call
\* that raised.
_send_to_socket(proto, net, http_data) ==
    IF proto = "HTTPS" /\ net.wrap = "fail"
    THEN [raised |-> "OSError", failed |-> "wrap", reply |-> <<>>, writes |-> 0]
    ELSE IF net.write = "fail"
    THEN [raised |-> "OSError", failed |-> "write", reply |-> <<>>, writes |-> 1]
    ELSE IF net.read = "fail"
    THEN [raised |-> "OSError", failed |-> "read", reply |-> <<>>, writes |-> 1]
    ELSE [raised |-> None, failed |-> None, reply |-> net.reply, writes |-> 1]

NoIO ==
    [lookups |-> 0, resolved |-> FALSE, sockets |-> 0, connects |-> 0, writes |-> 0, closes |-> 0,
     failed |-> None, replied |-> FALSE, reply |-> <<>>, request |-> ""]

\* _ProtoWeb.send: what it raised or returned (count), the DNS cache it leaves, and
\* the network calls it made
ProtoSend(proto, info, next, channel, values, net, now) ==
    LET dns == _resolve_ip(info, next, net, now)
        io1 == [NoIO EXCEPT !.lookups = dns.lookups,
                            !.resolved = (dns.lookups = 1 /\ dns.raised = None)]
        cache == [address_info |-> dns.address_info, next |-> dns.next]
    IN IF dns.raised # None
       THEN [raised |-> dns.raised, count |-> <<>>, cache |-> cache,
             io |-> [io1 EXCEPT !.failed = "lookup"]]
       ELSE IF ~dns.address_info.set
       THEN [raised |-> "TypeError", count |-> <<>>, cache |-> cache, io |-> io1]
       ELSE IF dns.address_info.list = <<>>
       THEN [raised |-> "IndexError", count |-> <<>>, cache |-> cache, io |-> io1]
       ELSE LET io2 == [io1 EXCEPT !.sockets = 1, !.connects = 1] IN
       IF net.connect = "fail"
       THEN [raised |-> "OSError", count |-> <<>>, cache |-> cache,
             io |-> [io2 EXCEPT !.failed = "connect"]]
       ELSE LET http_data == _make_http_data(channel, values) IN
       IF http_data.raised # None
       THEN [raised |-> http_data.raised, count |-> <<>>, cache |-> cache, io |-> io2]
       ELSE LET got == _send_to_socket(proto, net, http_data.value)
                io3 == [io2 EXCEPT !.writes = got.writes, !.request = http_data.value,
                                   !.failed = got.failed]
            IN
       IF got.raised # None
       THEN [raised |-> got.raised, count |-> <<>>, cache |-> cache, io |-> io3]
       ELSE [raised |-> None,
             count |-> _parse_reply(got.reply),
             cache |-> cache,
             io |-> [io3 EXCEPT !.replied = TRUE, !.reply = got.reply, !.closes = 1]]

----------------------------------------------------------------------------
(* ThingSpeakAPI *)

_FREE_API_LIMIT_SEC == 16000

_API_ALL_DEVICES_POSTING_LIMIT_SEC == 10512

\* the limit scaled by the number of names in the registry, not of channels given
ApiTimeLimit_Registry(chs) ==
    Max(_API_ALL_DEVICES_POSTING_LIMIT_SEC * Cardinality({chs[k].name : k \in 1..Len(chs)}),
        _FREE_API_LIMIT_SEC)

\* {channel.name: channel for channel in channels}, over the first n channels
RECURSIVE ChannelsDict(_, _)
ChannelsDict(chs, n) ==
    IF n = 0 THEN <<>>
    ELSE LET d == ChannelsDict(chs, n - 1) IN
         [k \in DOMAIN d \cup {chs[n].name} |-> IF k = chs[n].name THEN chs[n] ELSE d[k]]

ApiTimeLimit(chs) ==
    Max(_API_ALL_DEVICES_POSTING_LIMIT_SEC * Len(chs), _FREE_API_LIMIT_SEC)

\* without the check for None: an unknown name goes on as a channel without fields
_get_channel_Unchecked(registry, channel_name) ==
    IF channel_name \in DOMAIN registry
    THEN [raised |-> None, value |-> registry[channel_name]]
    ELSE [raised |-> None, value |-> [name |-> channel_name, write_key |-> "", fields |-> <<>>]]

_get_channel(registry, channel_name) ==
    IF channel_name \in DOMAIN registry
    THEN [raised |-> None, value |-> registry[channel_name]]
    ELSE [raised |-> "ThingSpeakError", value |-> None]

\* the free limit taken instead of the limit computed for the channels
NextDelay_FreeLimit(limit, start, end) ==
    Max(0, _FREE_API_LIMIT_SEC - ticks_diff(end, start))

\* the ticks not divided by 1000: milliseconds subtracted from seconds
NextDelay_Millis(limit, start, end) == Max(0, limit - 1000 * ticks_diff(end, start))

\* without the floor at 0
NextDelay_NoFloor(limit, start, end) == limit - ticks_diff(end, start)

\* max(0, self._api_time_limit_sec - execution_sec)
NextDelay(limit, start, end) == Max(0, limit - ticks_diff(end, start))

\* a raised error resetting the delay on its way out, as a finally clause would
SendOutcome_ResetOnRaise(raised, count, limit, start, end, delay) ==
    IF raised # None THEN [result |-> raised, delay |-> 0, delay_set |-> TRUE]
    ELSE IF count # MESSAGE_COUNT_ON_ERROR_FROM_API
    THEN [result |-> "True", delay |-> NextDelay(limit, start, end), delay_set |-> TRUE]
    ELSE [result |-> "False", delay |-> 0, delay_set |-> TRUE]

\* how ThingSpeakAPI.send ends, given what _get_channel or self._api.send raised or
\* the count it returned: the result (True, False or the error, which is not caught),
\* _free_api_delay afterwards, and whether the call assigned it
SendOutcome(raised, count, limit, start, end, delay) ==
    IF raised # None THEN [result |-> raised, delay |-> delay, delay_set |-> FALSE]
    ELSE IF count # MESSAGE_COUNT_ON_ERROR_FROM_API
    THEN [result |-> "True", delay |-> NextDelay(limit, start, end), delay_set |-> TRUE]
    ELSE [result |-> "False", delay |-> 0, delay_set |-> TRUE]

NoAddressInfo == [set |-> FALSE, list |-> <<>>]

\* the function has not been applied yet
NoResult == [done |-> FALSE, raised |-> None, value |-> None]

\* no call yet.  Of a call: its arguments, how it ended (what it returned or raised),
\* the clock when it started and ended, free_api_delay and lookup_at as it found them,
\* its network calls, and how the call before it ended and when
NoCall ==
    [channel_name |-> None, values |-> <<>>, result |-> None, start |-> 0, finish |-> 0,
     delay_before |-> 0, delay_set |-> FALSE, cached_at |-> -1, io |-> NoIO,
     prev |-> [result |-> None, start |-> 0, finish |-> 0]]

Init ==
    /\ channels \in ChannelLists
    /\ _channels = ChannelsDict(channels, Len(channels))
    /\ _api_time_limit_sec = ApiTimeLimit(channels)
    /\ protocol \in {"HTTP", "HTTPS"}
    /\ clock \in StartClocks
    /\ free_api_delay = 0
    /\ next_dns_lookup_timestamp = 0
    /\ address_info = NoAddressInfo
    /\ open_sockets = 0
    /\ sends = 0
    /\ last = NoCall
    /\ lookup_at = -1
    /\ slept = FALSE
    /\ arg = None
    /\ out = NoResult

\* ThingSpeakAPI.send(channel_name, values), taking d ms on the network net
Send(channel_name, values, net, d) ==
    /\ sends' = sends + 1
    /\ slept' = FALSE
    /\ UNCHANGED <<channels, _channels, _api_time_limit_sec, protocol, arg, out>>
    /\ LET start == ticks_ms(clock)
           channel == _get_channel(_channels, channel_name)
           call == [NoCall EXCEPT !.channel_name = channel_name, !.values = values,
                                  !.start = clock, !.delay_before = free_api_delay,
                                  !.cached_at = lookup_at,
                                  !.prev = [result |-> last.result, start |-> last.start,
                                            finish |-> last.finish]]
       IN IF channel.raised # None
          THEN LET o == SendOutcome(channel.raised, <<>>, _api_time_limit_sec, start,
                                    ticks_ms(clock), free_api_delay)
               IN /\ free_api_delay' = o.delay
                  /\ last' = [call EXCEPT !.result = o.result, !.finish = clock,
                                          !.delay_set = o.delay_set]
                  /\ UNCHANGED <<clock, next_dns_lookup_timestamp, address_info,
                                 open_sockets, lookup_at>>
          ELSE LET r == ProtoSend(protocol, address_info, next_dns_lookup_timestamp,
                                  channel.value, values, net, time(clock))
                   end == clock + d
                   o == SendOutcome(r.raised, r.count, _api_time_limit_sec, start,
                                    ticks_ms(end), free_api_delay)
               IN /\ clock' = end
                  /\ address_info' = r.cache.address_info
                  /\ next_dns_lookup_timestamp' = r.cache.next
                  /\ open_sockets' = open_sockets + r.io.sockets - r.io.closes
                  /\ lookup_at' = IF r.io.resolved THEN clock ELSE lookup_at
                  /\ free_api_delay' = o.delay
                  /\ last' = [call EXCEPT !.result = o.result, !.finish = end,
                                          !.delay_set = o.delay_set, !.io = r.io]

\* main.py: time.sleep(thing_speak.free_api_delay) after a send
SleepDelay ==
    /\ sends > 0
    /\ ~slept
    /\ slept' = TRUE
    /\ clock' = clock + free_api_delay
    /\ UNCHANGED <<channels, _channels, _api_time_limit_sec, protocol, free_api_delay,
                   next_dns_lookup_timestamp, address_info, open_sockets, sends, last,
                   lookup_at, arg, out>>

\* the caller is busy elsewhere (main.py: the sensor is measured) for w ms
Wait(w) ==
    /\ clock + w <= MaxClock
    /\ clock' = clock + w
    /\ UNCHANGED <<channels, _channels, _api_time_limit_sec, protocol, free_api_delay,
                   next_dns_lookup_timestamp, address_info, open_sockets, sends, last,
                   lookup_at, slept, arg, out>>

\* the calls made: a good one and one with a bad argument of each kind
Calls ==
    {<<"Lab", <<Temp, Humidity>>>>, <<"Lab", <<Humidity>>>>, <<"Lab", <<>>>>,
     <<"Lab", <<Temp, Pressure>>>>, <<"Bed", <<Temp>>>>, <<"Attic", <<Temp>>>>,
     <<"Attic", <<>>>>}

\* Sends of every kind on every network, back to back or after the DNS cache expired
Next ==
    \/ \E c \in Calls, net \in Networks :
          sends < MaxSends /\ Send(c[1], c[2], net, 250)
    \/ Wait(_API_DNS_LOOKUP_INTERVAL_SEC)

Spec == Init /\ [][Next]_vars

\* Good sends of every duration, the API accepting or rejecting them or the lookup
\* failing, with the caller sleeping and waiting in between
TimedNetworks ==
    {NetOk(ReplyOk), NetOk(ReplyOkMinus1), NetOk(ReplyBadRequest),
     [NetOk(ReplyOk) EXCEPT !.dns = "fail"]}

InitTime ==
    /\ Init
    /\ channels \in {<<Lab>>, <<Lab, Bed>>}
    /\ protocol = "HTTP"
    /\ clock = 1000

NextTime ==
    \/ \E net \in TimedNetworks, d \in Durations :
          sends < MaxTimedSends /\ Send("Lab", <<Temp, Humidity>>, net, d)
    \/ SleepDelay
    \/ \E w \in Waits : Wait(w)

SpecTime == InitTime /\ [][NextTime]_vars

----------------------------------------------------------------------------
(* _parse_reply on every reply of up to MaxReplyChunks pieces *)

Chunks == {Http, Sp, Int200, <<"1">>, CRLF, <<"-">>}

RECURSIVE ChunkSeqs(_)
ChunkSeqs(n) ==
    IF n = 0 THEN {<<>>}
    ELSE LET shorter == ChunkSeqs(n - 1) IN
         shorter \cup {c \o r : c \in Chunks, r \in shorter}

\* a client that is not sending
ClientIdle ==
    /\ channels = <<Lab>>
    /\ _channels = ChannelsDict(channels, Len(channels))
    /\ _api_time_limit_sec = ApiTimeLimit(channels)
    /\ protocol = "HTTP"
    /\ clock = 0
    /\ free_api_delay = 0
    /\ next_dns_lookup_timestamp = 0
    /\ address_info = NoAddressInfo
    /\ open_sockets = 0
    /\ sends = 0
    /\ last = NoCall
    /\ lookup_at = -1
    /\ slept = FALSE

ClientVars ==
    <<channels, _channels, _api_time_limit_sec, protocol, clock, free_api_delay,
      next_dns_lookup_timestamp, address_info, open_sockets, sends, last, lookup_at,
      slept>>

InitParse ==
    /\ ClientIdle
    /\ arg \in ChunkSeqs(MaxReplyChunks)
    /\ out = NoResult

ParseReply ==
    /\ out = NoResult
    /\ out' = [done |-> TRUE, raised |-> None, value |-> _parse_reply(arg)]
    /\ UNCHANGED <<ClientVars, arg>>

SpecParse == InitParse /\ [][ParseReply]_vars

----------------------------------------------------------------------------
(* _make_http_data on every channel and every mapping of up to MaxValues entries *)

FieldLists ==
    {<<"Temp">>, <<"Temp", "Humidity">>, <<"Humidity", "Temp">>,
     <<"Temp", "Humidity", "Wind">>, <<"Temp", "Wind", "Temp">>}

FieldNames == {"Temp", "Humidity", "Wind", "Pressure"}

FieldValues ==
    {[type |-> "float", v |-> "21.5"], [type |-> "int", v |-> 40],
     [type |-> "int", v |-> -3], [type |-> "str", v |-> "hot"]}

\* the mappings of up to n entries, each as the sequence of its entries
RECURSIVE Mappings(_)
Mappings(n) ==
    IF n = 0 THEN {<<>>}
    ELSE LET smaller == Mappings(n - 1) IN
         smaller \cup
         {Append(m, <<f, v>>) : m \in {x \in smaller : Len(x) = n - 1},
                                f \in FieldNames, v \in FieldValues}

HasKey(m, f) == \E i \in 1..Len(m) : m[i][1] = f

DistinctKeys(m) == \A i, j \in 1..Len(m) : m[i][1] = m[j][1] => i = j

InitBuild ==
    /\ ClientIdle
    /\ arg \in [name : {"Lab"}, write_key : {"K1", ""}, fields : FieldLists,
                values : {m \in Mappings(MaxValues) : DistinctKeys(m)}]
    /\ out = NoResult

BuildRequest ==
    /\ out = NoResult
    /\ LET http_data ==
               _make_http_data(Channel(arg.name, arg.write_key, arg.fields), arg.values)
       IN out' = [done |-> TRUE, raised |-> http_data.raised, value |-> http_data.value]
    /\ UNCHANGED <<ClientVars, arg>>

SpecBuild == InitBuild /\ [][BuildRequest]_vars

----------------------------------------------------------------------------
(* Properties *)

Called == last.result # None

KnownChannel == last.channel_name \in DOMAIN _channels

\* the values of the last call are empty or name a field its channel does not have
InvalidValues ==
    \/ last.values = <<>>
    \/ \E i \in 1..Len(last.values) :
          last.values[i][1] \notin DOMAIN _channels[last.channel_name].fields

NoNetworkCall ==
    /\ last.io.lookups = 0
    /\ last.io.sockets = 0
    /\ last.io.connects = 0
    /\ last.io.writes = 0

Elapsed == last.finish - last.start

\* the reply of the last call carries a status code, and it is (is not) 200
RepliedStatus200 ==
    /\ last.io.replied
    /\ ParseStatus(last.io.reply).raised = None
    /\ ParseStatus(last.io.reply).value = Int200

RepliedStatusNot200 ==
    /\ last.io.replied
    /\ ParseStatus(last.io.reply).raised = None
    /\ ParseStatus(last.io.reply).value # Int200

\* C1: a send to a registered channel whose values are empty or name a field the
\* channel does not have ends with ThingSpeakError and makes no network call: no DNS
\* lookup, no socket, no connection, no write.
C1_ValidationBeforeNetwork ==
    (Called /\ KnownChannel /\ InvalidValues) =>
        (last.result = "ThingSpeakError" /\ NoNetworkCall)

\* C2: after a send that returned True, free_api_delay is the API time limit minus
\* the time from the start of the call to its end, or 0 when that is negative; it is
\* never negative.
C2_DelayAfterSuccess ==
    last.result = "True" =>
        /\ free_api_delay =
              (IF _api_time_limit_sec - Elapsed > 0 THEN _api_time_limit_sec - Elapsed
               ELSE 0)
        /\ free_api_delay >= 0

\* a send that took longer than the limit returned True and left no delay
C2_Witness ==
    /\ last.result = "True"
    /\ Elapsed > _api_time_limit_sec
    /\ free_api_delay = 0

\* C3: a reply whose status code is not 200 makes send return False, not raise, and
\* leaves free_api_delay at 0, whatever it was before.
C3_RejectionReported ==
    RepliedStatusNot200 => (last.result = "False" /\ free_api_delay = 0)

\* a rejected send found a positive delay and left 0
C3_Witness ==
    /\ RepliedStatusNot200
    /\ last.delay_before > 0
    /\ last.result = "False"
    /\ free_api_delay = 0

\* C4: when the call before returned True and the caller then waited at least
\* free_api_delay before this call, this call started no earlier than the API time
\* limit after the call before started.
C4_MinimumInterval ==
    (Called /\ last.prev.result = "True"
            /\ last.start - last.prev.finish >= last.delay_before) =>
        last.start - last.prev.start >= _api_time_limit_sec

\* a send made right after sleeping a positive free_api_delay, two channels configured
C4_Witness ==
    /\ Called
    /\ last.prev.result = "True"
    /\ last.delay_before > 0
    /\ last.start - last.prev.finish = last.delay_before
    /\ Len(channels) = 2

\* the outcome C5 gives for a reply: -1 without a usable status line (no
\* second token on the first line, or one that is no number) and for a status other
\* than 200; with status 200 the integer of the body, or 0 when the body is none
StatedParse(reply) ==
    LET tokens == SplitAll(SplitFirstHead(reply, CRLF), " ")
        usable == Len(tokens) >= 2 /\ PyInt(tokens[2]).raised = None
        body == PyInt(RSplitLastTail(reply, CRLF \o CRLF))
    IN IF ~usable THEN IntMinus1
       ELSE IF PyInt(tokens[2]).value # Int200 THEN IntMinus1
       ELSE IF body.raised = None THEN body.value
       ELSE Int0

\* C5: _parse_reply gives the integer of the body for status 200 with an integer
\* body, 0 for status 200 with another body, and -1 for any other status and for a
\* reply without a usable status line (empty, or a status token that is no number).
C5_ParseOutcomes == out.done => out.value = StatedParse(arg)

\* C6: a send to a channel name that is not registered ends with ThingSpeakError and
\* makes no network call, whatever the values and the DNS cache.
C6_UnknownChannelNoNetwork ==
    (Called /\ ~KnownChannel) => (last.result = "ThingSpeakError" /\ NoNetworkCall)

\* a send to an unknown channel while the DNS cache holds an expired address
C6_Witness ==
    /\ Called
    /\ ~KnownChannel
    /\ last.result = "ThingSpeakError"
    /\ address_info.set
    /\ next_dns_lookup_timestamp <= clock

\* C7: between calls no socket a send created is open.
C7_NoOpenConnection == open_sockets = 0

\* C8: a send that reaches the resolver looks the host up when no address was
\* resolved before or 3600 s or more have passed since the last one was, and then
\* once; otherwise it does not look it up.
C8_LookupOncePerHour ==
    (Called /\ KnownChannel) =>
        last.io.lookups =
            (IF last.cached_at = -1
                \/ last.start - last.cached_at >= _API_DNS_LOOKUP_INTERVAL_SEC
             THEN 1 ELSE 0)

\* a send exactly 3600 s after the last lookup looked the host up again
C8_Witness ==
    /\ Called
    /\ last.cached_at # -1
    /\ last.start - last.cached_at = _API_DNS_LOOKUP_INTERVAL_SEC
    /\ last.io.lookups = 1
    /\ last.io.resolved

\* the body of the reply of the last call is an integer
RepliedIntegerBody == last.io.replied /\ ParseBody(last.io.reply).raised = None

\* C9: after a successful send (it returned True on a 200 reply with an integer
\* body), free_api_delay is greater than 0.
C9_PositiveDelay ==
    (last.result = "True" /\ RepliedStatus200 /\ RepliedIntegerBody) =>
        free_api_delay > 0

\* C9 as amended: after a send that returned True, free_api_delay is greater than 0
\* when the call took less than the API time limit, and 0 when it took that or longer.
C9_PositiveDelayWhenFaster ==
    last.result = "True" =>
        IF Elapsed < _api_time_limit_sec THEN free_api_delay > 0 ELSE free_api_delay = 0

\* a 200 reply with an integer body, sooner than the limit: the delay is what is left
C9_Witness ==
    /\ RepliedStatus200
    /\ RepliedIntegerBody
    /\ last.result = "True"
    /\ Elapsed = 250
    /\ free_api_delay = _api_time_limit_sec - 250

\* the positions of a field name in a declared field list
Positions(fields, field_name) == {n \in 1..Len(fields) : fields[n] = field_name}

\* the requests C10 allows: one slot=value pair per entry, in the
\* order of the entries, joined by &, each slot field<N> with N a position of the
\* entry's name in the declared list (its position, when the list names it once)
StatedRequests(write_key, fields, values) ==
    LET slots == {f \in [1..Len(values) -> 1..Len(fields)] :
                      \A i \in 1..Len(values) : f[i] \in Positions(fields, values[i][1])}
        Pair(f, i) == "field" \o ToString(f[i]) \o "="
                      \o (IF values[i][2].type = "int" THEN ToString(values[i][2].v)
                          ELSE values[i][2].v)
        RECURSIVE Query(_, _)
        Query(f, i) == IF i = Len(values) THEN Pair(f, i)
                       ELSE Pair(f, i) \o "&" \o Query(f, i + 1)
    IN {"GET /update?api_key=" \o write_key \o "&" \o Query(f, 1) \o " HTTP/1.1\r\n"
        \o "Host: api.thingspeak.com\r\nConnection: close\r\n\r\n" : f \in slots}

\* C10: for a non-empty mapping whose keys are all fields of the channel, the request
\* built is the GET line with the write key and one slot=value pair per entry joined
\* by &, then the Host and Connection: close headers.
C10_RequestForm ==
    (out.done /\ arg.values # <<>>
              /\ \A i \in 1..Len(arg.values) :
                    Positions(arg.fields, arg.values[i][1]) # {}) =>
        /\ out.raised = None
        /\ out.value \in StatedRequests(arg.write_key, arg.fields, arg.values)

\* the request for Temp = 21.5 and Humidity = 40 on a channel declared with these two
C10_Witness ==
    /\ out.done
    /\ arg.fields = <<"Temp", "Humidity">>
    /\ arg.write_key = "K1"
    /\ Len(arg.values) = 2
    /\ out.value = "GET /update?api_key=K1&field1=21.5&field2=40 HTTP/1.1\r\n"
                   \o "Host: api.thingspeak.com\r\nConnection: close\r\n\r\n"


\* ---- C11 ----
RaisedError == last.result \in {"ThingSpeakError", "OSError", "IndexError", "TypeError"}

\* C11: free_api_delay is 0 before the first send, and once a send call has
\* ended, a raised error included, the call has assigned free_api_delay
C11_DelaySetByEveryAttempt ==
    /\ (sends = 0 => free_api_delay = 0)
    /\ (Called => last.delay_set)

\* C11 as amended: free_api_delay is 0 before the first send; a send that returns assigns
\* it (True: the limit less the time taken, floored at 0; False: 0); a send that ends
\* with a raised error assigns nothing and leaves the delay of the earlier send
C11_DelaySetByEveryReturn ==
    /\ (sends = 0 => free_api_delay = 0)
    /\ (Called =>
          /\ last.delay_set <=> ~RaisedError
          /\ (last.result = "True" =>
                free_api_delay = Max(0, _api_time_limit_sec - Elapsed))
          /\ (last.result = "False" => free_api_delay = 0)
          /\ (RaisedError => free_api_delay = last.delay_before))

\* a transport failure after a successful send: the delay of the first send is still there
C11_Witness ==
    /\ last.result = "OSError"
    /\ last.prev.result = "True"
    /\ last.delay_before > 0
    /\ free_api_delay = last.delay_before


\* ---- C12 ----
\* C12: in every state, before and after any send, the time limit is the
\* greater of 16 s and 10.512 s times the number of channels in the registry
C12_LimitByRegistrySize ==
    _api_time_limit_sec =
        Max(_FREE_API_LIMIT_SEC,
            _API_ALL_DEVICES_POSTING_LIMIT_SEC * Cardinality(DOMAIN _channels))

\* C12 as amended: in every state, before and after any send, the time limit is the
\* greater of 16 s and 10.512 s times the number of channels given to the constructor
C12_LimitByChannelsGiven ==
    _api_time_limit_sec =
        Max(_FREE_API_LIMIT_SEC, _API_ALL_DEVICES_POSTING_LIMIT_SEC * Len(channels))

\* two channels of one name, so a registry of one, and the limit of two after two sends
C12_Witness ==
    /\ sends = MaxSends
    /\ Len(channels) = 2
    /\ Cardinality(DOMAIN _channels) = 1
    /\ _api_time_limit_sec = 2 * _API_ALL_DEVICES_POSTING_LIMIT_SEC


\* ---- C13 ----
\* C13: a send call looks up at most once, opens at most one socket, connects at most
\* once and writes the request at most once; when a network call of it fails (lookup,
\* connect, TLS wrap, write or read), the call ends with that OSError raised to the
\* caller, and no network call of a later step has been made
C13_OneAttemptNoRetry ==
    Called =>
        /\ last.io.lookups <= 1
        /\ last.io.sockets <= 1
        /\ last.io.connects <= 1
        /\ last.io.writes <= 1
        /\ (last.io.failed # None =>
              /\ last.result = "OSError"
              /\ ~last.io.replied
              /\ free_api_delay = last.delay_before)
        /\ (last.io.failed = "lookup" => last.io.sockets = 0 /\ last.io.connects = 0)
        /\ (last.io.failed = "connect" => last.io.connects = 1 /\ last.io.writes = 0)
        /\ (last.io.failed = "wrap" => last.io.connects = 1 /\ last.io.writes = 0)
        /\ (last.io.failed \in {"write", "read"} =>
              last.io.connects = 1 /\ last.io.writes = 1)

\* a write that failed on the one connection of the call
C13_Witness ==
    /\ last.io.failed = "write"
    /\ last.result = "OSError"
    /\ last.io.connects = 1
    /\ last.io.writes = 1


\* ---- C14 ----
\* C14: in every reachable state, before the first send and after any sequence of
\* sends and waits, 0 <= free_api_delay <= the time limit of the client
C14_DelayWithinLimit ==
    /\ 0 <= free_api_delay
    /\ free_api_delay <= _api_time_limit_sec

\* after the last of a sequence of sends, a delay above the free limit of 16 s and
\* within the limit of the two channels
C14_Witness ==
    /\ sends = MaxTimedSends
    /\ last.result = "True"
    /\ free_api_delay > _FREE_API_LIMIT_SEC
    /\ free_api_delay <= _api_time_limit_sec


\* ---- C15 ----
\* no address is at hand: nothing was looked up yet, or the lookup gave an empty list
NoAddressAvailable == ~address_info.set \/ address_info.list = <<>>

\* C15: after a send whose lookup raised or gave no address, the expiry of the cache
\* is not ahead of the time that send began (so the next send looks up again); a
\* send to a known channel that ends with no address at hand has itself looked up;
\* and a send creates a socket only with a resolved address at hand
C15_FailedLookupNotCached ==
    Called =>
        /\ ((last.io.lookups = 1 /\ NoAddressAvailable) =>
              next_dns_lookup_timestamp <= last.start)
        /\ ((KnownChannel /\ NoAddressAvailable) => last.io.lookups = 1)
        /\ (last.io.sockets >= 1 => ~NoAddressAvailable)

====
